---- MODULE Spec2Model ----
(***************************************************************************)
(* ScamDNA Guard: the /analyze scoring engine of src/main.py.              *)
(*                                                                         *)
(* A text is a sequence of Unicode code points.  Regular expressions of    *)
(* the pattern bank are sequences of elements (literal alternatives, \b,   *)
(* .*, \s*, \d+) matched by backtracking, case-insensitively, as           *)
(* re.search(p, text, flags=re.IGNORECASE) does on Python str values.      *)
(* Weights are kept in hundredths so that the weighted sum is an integer.  *)
(***************************************************************************)
EXTENDS Integers, Sequences, FiniteSets, TLC

VARIABLES pc, pieces, text, dna, score, resp

vars == <<pc, pieces, text, dna, score, resp>>

(***************************************************************************)
(* Bounds of the model                                                     *)
(***************************************************************************)
\* number of message fragments a request text is composed of
MaxPieces == 2

(***************************************************************************)
(* Character classes of Python's re on str (alphabet: ASCII, the Thai      *)
(* block U+0E01..U+0E5B, U+017F LONG S and U+212A KELVIN SIGN)             *)
(***************************************************************************)
\* \w : alphanumeric or underscore; Thai combining vowels and tone marks
\* (category Mn: U+0E31, U+0E34..U+0E3A, U+0E47..U+0E4E) are not \w
IsWord(c) ==
  \/ (97 <= c /\ c <= 122) \/ (65 <= c /\ c <= 90) \/ (48 <= c /\ c <= 57) \/ c = 95
  \/ (3585 <= c /\ c <= 3632) \/ (3634 <= c /\ c <= 3635) \/ (3648 <= c /\ c <= 3654)
  \/ (3664 <= c /\ c <= 3673) \/ c = 383 \/ c = 8490

\* \s and str.strip(): the whitespace characters
IsSpace(c) == (9 <= c /\ c <= 13) \/ (28 <= c /\ c <= 32)

\* \d : decimal digits, the Thai digits included
IsDigit(c) == (48 <= c /\ c <= 57) \/ (3664 <= c /\ c <= 3673)

\* a case-sensitive comparison
Fold_m(c) == c

\* re.IGNORECASE: two characters match when their case folds agree
Fold(c) ==
  IF 65 <= c /\ c <= 90 THEN c + 32
  ELSE IF c = 8490 THEN 107
  ELSE IF c = 383 THEN 115
  ELSE c

\* str.lower() of one character
Lower(c) ==
  IF 65 <= c /\ c <= 90 THEN c + 32
  ELSE IF c = 8490 THEN 107
  ELSE c

LowerStr(s) == [i \in 1..Len(s) |-> Lower(s[i])]

(***************************************************************************)
(* Regular expression elements                                             *)
(***************************************************************************)
Alt(S)    == [op |-> "alt", alts |-> S]
Lit(s)    == Alt({s})
Opt(s)    == Alt({s, <<>>})
WB        == [op |-> "wb", alts |-> {}]
DotStar   == [op |-> "dotstar", alts |-> {}]
SpaceStar == [op |-> "spacestar", alts |-> {}]
DigitPlus == [op |-> "digitplus", alts |-> {}]

\* the literal s occurs in t at position pos, ignoring case
LitAt(s, t, pos) ==
  /\ pos + Len(s) - 1 <= Len(t)
  /\ \A j \in 1..Len(s) : Fold(t[pos + j - 1]) = Fold(s[j])

\* \b between t[pos-1] and t[pos]; outside the text counts as non-word
AtBoundary(t, pos) ==
  LET before == pos > 1 /\ IsWord(t[pos - 1])
      after  == pos <= Len(t) /\ IsWord(t[pos])
  IN  before # after

\* elements i.. of p match t from position pos on
RECURSIVE MatchFrom(_, _, _, _)
MatchFrom(p, i, t, pos) ==
  IF i > Len(p) THEN TRUE
  ELSE LET e == p[i] IN
    CASE e.op = "alt" ->
           \E s \in e.alts : LitAt(s, t, pos) /\ MatchFrom(p, i + 1, t, pos + Len(s))
      [] e.op = "wb" ->
           AtBoundary(t, pos) /\ MatchFrom(p, i + 1, t, pos)
      [] e.op = "dotstar" ->
           \E q \in pos..(Len(t) + 1) :
              /\ \A j \in pos..(q - 1) : t[j] # 10
              /\ MatchFrom(p, i + 1, t, q)
      [] e.op = "spacestar" ->
           \E q \in pos..(Len(t) + 1) :
              /\ \A j \in pos..(q - 1) : IsSpace(t[j])
              /\ MatchFrom(p, i + 1, t, q)
      [] e.op = "digitplus" ->
           \E q \in (pos + 1)..(Len(t) + 1) :
              /\ \A j \in pos..(q - 1) : IsDigit(t[j])
              /\ MatchFrom(p, i + 1, t, q)

\* re.search(p, t, flags=re.IGNORECASE) is not None
re_search(p, t) == \E pos \in 1..(Len(t) + 1) : MatchFrom(p, 1, t, pos)

\* str.strip()
RECURSIVE lstrip(_)
lstrip(t) == IF t # <<>> /\ IsSpace(Head(t)) THEN lstrip(Tail(t)) ELSE t

RECURSIVE rstrip(_)
rstrip(t) ==
  IF t # <<>> /\ IsSpace(t[Len(t)]) THEN rstrip(SubSeq(t, 1, Len(t) - 1)) ELSE t

strip(t) == rstrip(lstrip(t))

(***************************************************************************)
(* Constants of the engine                                                 *)
(***************************************************************************)
Min(a, b) == IF a < b THEN a ELSE b
Max(a, b) == IF a > b THEN a ELSE b

ClampLo == 0
ClampHi == 100

\* no upper limit
clamp_m(x) == Max(ClampLo, x)

clamp(x) == Max(ClampLo, Min(ClampHi, x))

DNA_KEYS == <<"urgency", "authority", "payment_trap", "fear", "reward", "trust_hijack">>

Dimensions == {DNA_KEYS[i] : i \in 1..Len(DNA_KEYS)}

PATTERNS ==
     "urgency" :> <<
       <<WB, Lit(<<117, 114, 103, 101, 110, 116>>), WB>>,   \* \burgent\b
       <<WB, Lit(<<105, 109, 109, 101, 100, 105, 97, 116, 101, 108, 121>>), WB>>,   \* \bimmediately\b
       <<WB, Lit(<<119, 105, 116, 104, 105, 110>>), WB, DotStar, WB, Alt({<<109, 105, 110, 117, 116, 101>>, <<109, 105, 110, 117, 116, 101, 115>>, <<104, 111, 117, 114>>, <<104, 111, 117, 114, 115>>}), WB>>,   \* \bwithin\b.*\b(minutes?|hours?)\b
       <<Lit(<<3604, 3656, 3623, 3609>>)>>,   \* U+0E14 U+0E48 U+0E27 U+0E19
       <<Lit(<<3607, 3633, 3609, 3607, 3637>>)>>,   \* U+0E17 U+0E31 U+0E19 U+0E17 U+0E35
       <<Lit(<<3616, 3634, 3618, 3651, 3609>>), SpaceStar, DigitPlus, SpaceStar, Alt({<<3609, 3634, 3607, 3637>>, <<3594, 3633, 3656, 3623, 3650, 3617, 3591>>})>>,   \* U+0E20 U+0E32 U+0E22 U+0E43 U+0E19 \s*\d+\s*(U+0E19 U+0E32 U+0E17 U+0E35 |U+0E0A U+0E31 U+0E48 U+0E27 U+0E42 U+0E21 U+0E07 )
       <<Lit(<<3627, 3617, 3604, 3648, 3586, 3605>>)>>,   \* U+0E2B U+0E21 U+0E14 U+0E40 U+0E02 U+0E15
       <<Lit(<<3648, 3619, 3656, 3591, 3604, 3656, 3623, 3609>>)>>   \* U+0E40 U+0E23 U+0E48 U+0E07 U+0E14 U+0E48 U+0E27 U+0E19
     >>
  @@ "authority" :> <<
       <<WB, Lit(<<98, 97, 110, 107>>), WB>>,   \* \bbank\b
       <<WB, Lit(<<111, 102, 102, 105, 99, 105, 97, 108>>), WB>>,   \* \bofficial\b
       <<WB, Lit(<<112, 111, 108, 105, 99, 101>>), WB>>,   \* \bpolice\b
       <<WB, Lit(<<103, 111, 118, 101, 114, 110, 109, 101, 110, 116>>), WB>>,   \* \bgovernment\b
       <<Lit(<<3608, 3609, 3634, 3588, 3634, 3619>>)>>,   \* U+0E18 U+0E19 U+0E32 U+0E04 U+0E32 U+0E23
       <<Lit(<<3648, 3592, 3657, 3634, 3627, 3609, 3657, 3634, 3607, 3637, 3656>>)>>,   \* U+0E40 U+0E08 U+0E49 U+0E32 U+0E2B U+0E19 U+0E49 U+0E32 U+0E17 U+0E35 U+0E48
       <<Lit(<<3605, 3635, 3619, 3623, 3592>>)>>,   \* U+0E15 U+0E33 U+0E23 U+0E27 U+0E08
       <<Lit(<<3585, 3619, 3617>>)>>,   \* U+0E01 U+0E23 U+0E21
       <<Lit(<<3627, 3609, 3656, 3623, 3618, 3591, 3634, 3609>>)>>   \* U+0E2B U+0E19 U+0E48 U+0E27 U+0E22 U+0E07 U+0E32 U+0E19
     >>
  @@ "payment_trap" :> <<
       <<WB, Lit(<<116, 114, 97, 110, 115, 102, 101, 114>>), WB>>,   \* \btransfer\b
       <<WB, Lit(<<112, 97, 121>>), WB>>,   \* \bpay\b
       <<WB, Lit(<<112, 97, 121, 109, 101, 110, 116>>), WB>>,   \* \bpayment\b
       <<WB, Lit(<<119, 97, 108, 108, 101, 116>>), WB>>,   \* \bwallet\b
       <<WB, Lit(<<99, 114, 121, 112, 116, 111>>), WB>>,   \* \bcrypto\b
       <<Lit(<<3650, 3629, 3609>>)>>,   \* U+0E42 U+0E2D U+0E19
       <<Lit(<<3592, 3656, 3634, 3618>>)>>,   \* U+0E08 U+0E48 U+0E32 U+0E22
       <<Lit(<<3594, 3635, 3619, 3632>>)>>,   \* U+0E0A U+0E33 U+0E23 U+0E30
       <<Lit(<<3614, 3619, 3657, 3629, 3617, 3648, 3614, 3618, 3660>>)>>,   \* U+0E1E U+0E23 U+0E49 U+0E2D U+0E21 U+0E40 U+0E1E U+0E22 U+0E4C
       <<Lit(<<3623, 3629, 3621, 3648, 3621, 3655, 3607>>)>>,   \* U+0E27 U+0E2D U+0E25 U+0E40 U+0E25 U+0E47 U+0E17
       <<Lit(<<3588, 3619, 3636, 3611, 3650, 3605>>)>>   \* U+0E04 U+0E23 U+0E34 U+0E1B U+0E42 U+0E15
     >>
  @@ "fear" :> <<
       <<WB, Lit(<<115, 117, 115, 112, 101, 110, 100>>), Opt(<<101, 100>>), WB>>,   \* \bsuspend(ed)?\b
       <<WB, Lit(<<108, 111, 99, 107, 101, 100>>), WB>>,   \* \blocked\b
       <<WB, Lit(<<108, 101, 103, 97, 108>>), WB>>,   \* \blegal\b
       <<WB, Lit(<<118, 105, 111, 108, 97, 116, 105, 111, 110>>), WB>>,   \* \bviolation\b
       <<Lit(<<3619, 3632, 3591, 3633, 3610>>)>>,   \* U+0E23 U+0E30 U+0E07 U+0E31 U+0E1A
       <<Lit(<<3606, 3641, 3585, 3621, 3655, 3629, 3585>>)>>,   \* U+0E16 U+0E39 U+0E01 U+0E25 U+0E47 U+0E2D U+0E01
       <<Lit(<<3612, 3636, 3604, 3585, 3598, 3627, 3617, 3634, 3618>>)>>,   \* U+0E1C U+0E34 U+0E14 U+0E01 U+0E0E U+0E2B U+0E21 U+0E32 U+0E22
       <<Lit(<<3604, 3635, 3648, 3609, 3636, 3609, 3588, 3604, 3637>>)>>,   \* U+0E14 U+0E33 U+0E40 U+0E19 U+0E34 U+0E19 U+0E04 U+0E14 U+0E35
       <<Lit(<<3606, 3641, 3585, 3611, 3636, 3604>>)>>   \* U+0E16 U+0E39 U+0E01 U+0E1B U+0E34 U+0E14
     >>
  @@ "reward" :> <<
       <<WB, Lit(<<119, 105, 110>>), WB>>,   \* \bwin\b
       <<WB, Lit(<<112, 114, 105, 122, 101>>), WB>>,   \* \bprize\b
       <<WB, Lit(<<114, 101, 102, 117, 110, 100>>), WB>>,   \* \brefund\b
       <<WB, Lit(<<98, 111, 110, 117, 115>>), WB>>,   \* \bbonus\b
       <<WB, Lit(<<102, 114, 101, 101>>), WB>>,   \* \bfree\b
       <<Lit(<<3619, 3634, 3591, 3623, 3633, 3621>>)>>,   \* U+0E23 U+0E32 U+0E07 U+0E27 U+0E31 U+0E25
       <<Lit(<<3586, 3629, 3591, 3615, 3619, 3637>>)>>,   \* U+0E02 U+0E2D U+0E07 U+0E1F U+0E23 U+0E35
       <<Lit(<<3588, 3639, 3609, 3648, 3591, 3636, 3609>>)>>,   \* U+0E04 U+0E37 U+0E19 U+0E40 U+0E07 U+0E34 U+0E19
       <<Lit(<<3650, 3610, 3609, 3633, 3626>>)>>,   \* U+0E42 U+0E1A U+0E19 U+0E31 U+0E2A
       <<Lit(<<3649, 3592, 3585>>)>>   \* U+0E41 U+0E08 U+0E01
     >>
  @@ "trust_hijack" :> <<
       <<Lit(<<104, 116, 116, 112>>), Opt(<<115>>), Lit(<<58, 47, 47>>)>>,   \* http[s]?://
       <<WB, Lit(<<98, 105, 116, 46, 108, 121>>), WB>>,   \* \bbit\.ly\b
       <<WB, Lit(<<116, 105, 110, 121, 117, 114, 108>>), WB>>,   \* \btinyurl\b
       <<Lit(<<46, 120, 121, 122>>), WB>>,   \* \.xyz\b
       <<Lit(<<46, 116, 111, 112>>), WB>>,   \* \.top\b
       <<Lit(<<3588, 3621, 3636, 3585>>)>>,   \* U+0E04 U+0E25 U+0E34 U+0E01
       <<Lit(<<3621, 3636, 3591, 3585, 3660>>)>>,   \* U+0E25 U+0E34 U+0E07 U+0E01 U+0E4C
       <<Lit(<<3626, 3649, 3585, 3609>>)>>,   \* U+0E2A U+0E41 U+0E01 U+0E19
       <<Lit(<<81, 82>>)>>   \* QR
     >>

keywords ==
  <<
    <<3604, 3656, 3623, 3609>>,   \* U+0E14 U+0E48 U+0E27 U+0E19
    <<3607, 3633, 3609, 3607, 3637>>,   \* U+0E17 U+0E31 U+0E19 U+0E17 U+0E35
    <<3619, 3632, 3591, 3633, 3610>>,   \* U+0E23 U+0E30 U+0E07 U+0E31 U+0E1A
    <<3650, 3629, 3609>>,   \* U+0E42 U+0E2D U+0E19
    <<3594, 3635, 3619, 3632>>,   \* U+0E0A U+0E33 U+0E23 U+0E30
    <<3619, 3634, 3591, 3623, 3633, 3621>>,   \* U+0E23 U+0E32 U+0E07 U+0E27 U+0E31 U+0E25
    <<3588, 3621, 3636, 3585>>,   \* U+0E04 U+0E25 U+0E34 U+0E01
    <<3626, 3649, 3585, 3609>>,   \* U+0E2A U+0E41 U+0E01 U+0E19
    <<3648, 3592, 3657, 3634, 3627, 3609, 3657, 3634, 3607, 3637, 3656>>,   \* U+0E40 U+0E08 U+0E49 U+0E32 U+0E2B U+0E19 U+0E49 U+0E32 U+0E17 U+0E35 U+0E48
    <<3608, 3609, 3634, 3588, 3634, 3619>>,   \* U+0E18 U+0E19 U+0E32 U+0E04 U+0E32 U+0E23
    <<117, 114, 103, 101, 110, 116>>,   \* urgent
    <<105, 109, 109, 101, 100, 105, 97, 116, 101, 108, 121>>,   \* immediately
    <<115, 117, 115, 112, 101, 110, 100>>,   \* suspend
    <<116, 114, 97, 110, 115, 102, 101, 114>>,   \* transfer
    <<112, 97, 121>>,   \* pay
    <<112, 114, 105, 122, 101>>,   \* prize
    <<114, 101, 102, 117, 110, 100>>,   \* refund
    <<99, 108, 105, 99, 107>>,   \* click
    <<115, 99, 97, 110>>,   \* scan
    <<98, 97, 110, 107>>   \* bank
  >>

(***************************************************************************)
(* Dimension scorer                                                        *)
(***************************************************************************)
\* each matching rule adds this much
HitScore == 20

\* the loop of score_dimension: hits after rules 1..n
RECURSIVE CountHits(_, _, _)
CountHits(t, patterns, n) ==
  IF n = 0 THEN 0
  ELSE CountHits(t, patterns, n - 1) + (IF re_search(patterns[n], t) THEN 1 ELSE 0)

score_dimension(t, patterns) == clamp(CountHits(t, patterns, Len(patterns)) * HitScore)

(***************************************************************************)
(* Highlight extractor                                                     *)
(***************************************************************************)
MaxHighlights == 8

\* rf"\b{re.escape(k)}\b": no keyword holds a character that re.escape changes
KeywordPattern(k) == <<WB, Lit(k), WB>>

\* found: the keywords 1..n that match, in list order
RECURSIVE Found(_, _)
Found(t, n) ==
  IF n = 0 THEN <<>>
  ELSE IF re_search(KeywordPattern(keywords[n]), t)
       THEN Append(Found(t, n - 1), keywords[n])
       ELSE Found(t, n - 1)

\* uniq: first occurrences, compared in lower case
RECURSIVE Uniq(_, _)
Uniq(found, n) ==
  IF n = 0 THEN <<>>
  ELSE LET u == Uniq(found, n - 1) IN
       IF \E i \in 1..Len(u) : LowerStr(u[i]) = LowerStr(found[n])
       THEN u ELSE Append(u, found[n])

\* every unique keyword, not the first 8
extract_highlights_m(t) ==
  LET found == Found(t, Len(keywords))
  IN  Uniq(found, Len(found))

extract_highlights(t) ==
  LET found == Found(t, Len(keywords))
      uniq  == Uniq(found, Len(found))
  IN  SubSeq(uniq, 1, Min(MaxHighlights, Len(uniq)))

(***************************************************************************)
(* Risk aggregator                                                         *)
(***************************************************************************)
\* the weight table w, in hundredths, in dict order
Weights ==
  << <<"payment_trap", 25>>, <<"trust_hijack", 20>>, <<"urgency", 20>>,
     <<"authority", 15>>, <<"fear", 10>>, <<"reward", 10>> >>

\* risk after the first n entries of w, in hundredths
RECURSIVE WeightedSum(_, _)
WeightedSum(d, n) ==
  IF n = 0 THEN 0
  ELSE WeightedSum(d, n - 1) + d[Weights[n][1]] * Weights[n][2]

\* int(): the fraction dropped
round_m(h) == h \div 100

\* round(): to the nearest integer, a tie to the even one.  On the profiles
\* over ProfileScores the float sum of the code rounds exactly so.
round(h) ==
  LET q == h \div 100
      r == h % 100
  IN  IF r > 50 \/ (r = 50 /\ q % 2 = 1) THEN q + 1 ELSE q

overall_risk(d) == clamp(round(WeightedSum(d, Len(Weights))))

HighFrom == 71
SuspiciousFrom == 31

\* strict comparisons
level_from_score_m(s) ==
  IF s > HighFrom THEN "HIGH"
  ELSE IF s > SuspiciousFrom THEN "SUSPICIOUS"
  ELSE "SAFE"

level_from_score(s) ==
  IF s >= HighFrom THEN "HIGH"
  ELSE IF s >= SuspiciousFrom THEN "SUSPICIOUS"
  ELSE "SAFE"

(***************************************************************************)
(* Explanation generator                                                   *)
(***************************************************************************)
\* insert key k into a sequence sorted by score descending, after its equals
RECURSIVE InsertDesc(_, _, _)
InsertDesc(s, k, d) ==
  IF s = <<>> THEN <<k>>
  ELSE IF d[Head(s)] >= d[k] THEN <<Head(s)>> \o InsertDesc(Tail(s), k, d)
  ELSE <<k>> \o s

\* sorted(dna.items(), key=score, reverse=True): stable, in DNA_KEYS order
RECURSIVE SortedDesc(_, _)
SortedDesc(d, n) ==
  IF n = 0 THEN <<>> ELSE InsertDesc(SortedDesc(d, n - 1), DNA_KEYS[n], d)

TopCount == 2

\* the top 3 instead of the top 2
TopTraits_m(d) ==
  LET top == SubSeq(SortedDesc(d, Len(DNA_KEYS)), 1, TopCount + 1)
  IN  SelectSeq(top, LAMBDA k : d[k] > 0)

\* the keys of top whose score is positive
TopTraits(d) ==
  LET top == SubSeq(SortedDesc(d, Len(DNA_KEYS)), 1, TopCount)
  IN  SelectSeq(top, LAMBDA k : d[k] > 0)

mapping ==
     "urgency" :> "urgency (forcing fast decisions)"
  @@ "authority" :> "authority impersonation (posing as a trusted institution)"
  @@ "payment_trap" :> "payment trap (pushing you to transfer/pay outside normal flow)"
  @@ "fear" :> "fear tactic (threatening consequences)"
  @@ "reward" :> "reward bait (promising prizes/refunds)"
  @@ "trust_hijack" :> "trust hijack (suspicious links/QR to move you off-platform)"

\* ", ".join(mapping[k] for k in ks)
RECURSIVE Join(_)
Join(ks) ==
  IF ks = <<>> THEN ""
  ELSE IF Len(ks) = 1 THEN mapping[ks[1]]
  ELSE mapping[ks[1]] \o ", " \o Join(Tail(ks))

NoPatterns == "No strong scam patterns detected. Still verify the sender if you are unsure."

Signs(traits) ==
  "This message shows signs of " \o traits
    \o ". Scammers use these tactics to reduce careful thinking and trigger quick actions."

\* no fallback message
generate_explanation_m(d) == Signs(Join(TopTraits(d)))

generate_explanation(d) ==
  LET traits == Join(TopTraits(d))
  IN  IF traits = "" THEN NoPatterns ELSE Signs(traits)

(***************************************************************************)
(* Tip generator (the typographic apostrophes are written ')               *)
(***************************************************************************)
TipThreshold == 40
MaxTips == 3

TipLink == "Avoid clicking links/QR from messages. Use official apps or type the website yourself."
TipTransfer == "Never transfer money or share OTP from a message. Confirm via official bank channels."
TipPause == "Pause before acting. Urgent threats are a common scam tactic."
TipVerify == "Verify the sender identity. Real institutions won't pressure you via random SMS/chat."
TipReward == "Be cautious of prizes/refunds you didn't request. Check with the official service."
TipFallback == "If unsure, verify through an official contact method before taking any action."

\* all tips, not the first 3
generate_tips_m(d) ==
  LET t1 == IF d["trust_hijack"] >= TipThreshold THEN <<TipLink>> ELSE <<>>
      t2 == IF d["payment_trap"] >= TipThreshold THEN Append(t1, TipTransfer) ELSE t1
      t3 == IF d["urgency"] >= TipThreshold \/ d["fear"] >= TipThreshold
            THEN Append(t2, TipPause) ELSE t2
      t4 == IF d["authority"] >= TipThreshold THEN Append(t3, TipVerify) ELSE t3
      t5 == IF d["reward"] >= TipThreshold THEN Append(t4, TipReward) ELSE t4
  IN  IF t5 = <<>> THEN <<TipFallback>> ELSE t5

\* strict thresholds
generate_tips_strict(d) ==
  LET t1 == IF d["trust_hijack"] > TipThreshold THEN <<TipLink>> ELSE <<>>
      t2 == IF d["payment_trap"] > TipThreshold THEN Append(t1, TipTransfer) ELSE t1
      t3 == IF d["urgency"] > TipThreshold \/ d["fear"] > TipThreshold
            THEN Append(t2, TipPause) ELSE t2
      t4 == IF d["authority"] > TipThreshold THEN Append(t3, TipVerify) ELSE t3
      t5 == IF d["reward"] > TipThreshold THEN Append(t4, TipReward) ELSE t4
      t6 == IF t5 = <<>> THEN <<TipFallback>> ELSE t5
  IN  SubSeq(t6, 1, Min(MaxTips, Len(t6)))

generate_tips(d) ==
  LET t1 == IF d["trust_hijack"] >= TipThreshold THEN <<TipLink>> ELSE <<>>
      t2 == IF d["payment_trap"] >= TipThreshold THEN Append(t1, TipTransfer) ELSE t1
      t3 == IF d["urgency"] >= TipThreshold \/ d["fear"] >= TipThreshold
            THEN Append(t2, TipPause) ELSE t2
      t4 == IF d["authority"] >= TipThreshold THEN Append(t3, TipVerify) ELSE t3
      t5 == IF d["reward"] >= TipThreshold THEN Append(t4, TipReward) ELSE t4
      t6 == IF t5 = <<>> THEN <<TipFallback>> ELSE t5
  IN  SubSeq(t6, 1, Min(MaxTips, Len(t6)))

(***************************************************************************)
(* POST /analyze                                                           *)
(***************************************************************************)
\* dna after the first n keys of DNA_KEYS
RECURSIVE ProfileUpTo(_, _)
ProfileUpTo(t, n) ==
  IF n = 1 THEN DNA_KEYS[1] :> score_dimension(t, PATTERNS[DNA_KEYS[1]])
  ELSE ProfileUpTo(t, n - 1) @@ (DNA_KEYS[n] :> score_dimension(t, PATTERNS[DNA_KEYS[n]]))

Profile(t) == ProfileUpTo(t, Len(DNA_KEYS))

analyze(req_text) ==
  LET t == strip(req_text)
      d == Profile(t)
      risk == overall_risk(d)
  IN  [risk_score |-> risk,
       risk_level |-> level_from_score(risk),
       dna |-> d,
       highlights |-> extract_highlights(t),
       explanation |-> generate_explanation(d),
       tips |-> generate_tips(d)]

(***************************************************************************)
(* Message fragments a client composes a request text from                 *)
(***************************************************************************)
\* URGENT: your bank account will be suspended, transfer payment immediately to avoid legal action, click http://bit.ly/xyz
ScamText ==
  <<85, 82, 71, 69, 78, 84, 58, 32, 121, 111, 117, 114, 32, 98, 97, 110, 107, 32, 97, 99, 99, 111, 117, 110, 116, 32, 119, 105, 108, 108, 32, 98, 101, 32, 115, 117, 115, 112, 101, 110, 100, 101, 100, 44, 32, 116, 114, 97, 110, 115, 102, 101, 114, 32, 112, 97, 121, 109, 101, 110, 116, 32, 105, 109, 109, 101, 100, 105, 97, 116, 101, 108, 121, 32, 116, 111, 32, 97, 118, 111, 105, 100, 32, 108, 101, 103, 97, 108, 32, 97, 99, 116, 105, 111, 110, 44, 32, 99, 108, 105, 99, 107, 32, 104, 116, 116, 112, 58, 47, 47, 98, 105, 116, 46, 108, 121, 47, 120, 121, 122>>
\* Hello, how are you today?
HelloText ==
  <<72, 101, 108, 108, 111, 44, 32, 104, 111, 119, 32, 97, 114, 101, 32, 121, 111, 117, 32, 116, 111, 100, 97, 121, 63>>
\* \n
Blank ==
  <<32, 10>>
\* urgent immediately suspend transfer pay
LatinA ==
  <<117, 114, 103, 101, 110, 116, 32, 105, 109, 109, 101, 100, 105, 97, 116, 101, 108, 121, 32, 115, 117, 115, 112, 101, 110, 100, 32, 116, 114, 97, 110, 115, 102, 101, 114, 32, 112, 97, 121, 32>>
\* prize refund click scan BANK
LatinB ==
  <<112, 114, 105, 122, 101, 32, 114, 101, 102, 117, 110, 100, 32, 99, 108, 105, 99, 107, 32, 115, 99, 97, 110, 32, 66, 65, 78, 75, 32>>
\* U+0E01 U+0E23 U+0E38 U+0E13 U+0E32 U+0E42 U+0E2D U+0E19 U+0E40 U+0E07 U+0E34 U+0E19 U+0E17 U+0E31 U+0E19 U+0E17 U+0E35
ThaiGlued ==
  <<3585, 3619, 3640, 3603, 3634, 3650, 3629, 3609, 3648, 3591, 3636, 3609, 3607, 3633, 3609, 3607, 3637>>
\* official police government U+0E01 U+0E23 U+0E21  U+0E15 U+0E33 U+0E23 U+0E27 U+0E08
AuthA ==
  <<111, 102, 102, 105, 99, 105, 97, 108, 32, 112, 111, 108, 105, 99, 101, 32, 103, 111, 118, 101, 114, 110, 109, 101, 110, 116, 32, 3585, 3619, 3617, 32, 3605, 3635, 3619, 3623, 3592, 32>>
\* within 2 hours U+0E20 U+0E32 U+0E22 U+0E43 U+0E19  5 U+0E19 U+0E32 U+0E17 U+0E35
Within ==
  <<119, 105, 116, 104, 105, 110, 32, 50, 32, 104, 111, 117, 114, 115, 32, 3616, 3634, 3618, 3651, 3609, 32, 53, 32, 3609, 3634, 3607, 3637>>
\* https://bit.ly/a.xyz QR U+0E04 U+0E25 U+0E34 U+0E01
Link ==
  <<104, 116, 116, 112, 115, 58, 47, 47, 98, 105, 116, 46, 108, 121, 47, 97, 46, 120, 121, 122, 32, 81, 82, 32, 3588, 3621, 3636, 3585>>
\* U+0E42 U+0E2D U+0E19
ThaiOon ==
  <<3650, 3629, 3609>>
\* free bonus win U+0E23 U+0E32 U+0E07 U+0E27 U+0E31 U+0E25
Reward ==
  <<102, 114, 101, 101, 32, 98, 111, 110, 117, 115, 32, 119, 105, 110, 32, 3619, 3634, 3591, 3623, 3633, 3621>>

Vocabulary ==
  {ScamText, HelloText, Blank, LatinA, LatinB, ThaiGlued, AuthA, Within, Link,
   ThaiOon, Reward}

NoResp == [none |-> TRUE]

ZeroProfile == [k \in Dimensions |-> 0]

(***************************************************************************)
(* Spec: a client composes a text and posts it to /analyze                 *)
(***************************************************************************)
Init ==
  /\ pc = "compose"
  /\ pieces = 0
  /\ text = <<>>
  /\ dna = ZeroProfile
  /\ score = 0
  /\ resp = NoResp

\* the client adds one fragment to the text of the request
Compose(piece) ==
  /\ pc = "compose"
  /\ pieces < MaxPieces
  /\ pieces' = pieces + 1
  /\ text' = text \o piece
  /\ UNCHANGED <<pc, dna, score, resp>>

\* the handler analyze(req)
Analyze ==
  /\ pc = "compose"
  /\ resp' = analyze(text)
  /\ dna' = resp'.dna
  /\ score' = resp'.risk_score
  /\ pc' = "done"
  /\ UNCHANGED <<pieces, text>>

Next == (\E piece \in Vocabulary : Compose(piece)) \/ Analyze

Spec == Init /\ [][Next]_vars

(***************************************************************************)
(* SpecDna: the functions of a DNA profile, applied to every profile over  *)
(* ProfileScores (the scores score_dimension produces, and 5 and 10)       *)
(***************************************************************************)
ProfileScores == {0, 5, 10, 20, 40, 60, 80, 100}

InitDna ==
  /\ pc = "profile"
  /\ pieces = 0
  /\ text = <<>>
  /\ dna \in [Dimensions -> ProfileScores]
  /\ score = 0
  /\ resp = NoResp

\* lines 134-143 of analyze on the profile dna
Derive ==
  /\ pc = "profile"
  /\ score' = overall_risk(dna)
  /\ resp' = [risk_score |-> score',
              risk_level |-> level_from_score(score'),
              explanation |-> generate_explanation(dna),
              tips |-> generate_tips(dna)]
  /\ pc' = "derived"
  /\ UNCHANGED <<pieces, text, dna>>

NextDna == Derive

SpecDna == InitDna /\ [][NextDna]_vars

(***************************************************************************)
(* SpecLevel: level_from_score applied to every score in [0,100]           *)
(***************************************************************************)
InitLevel ==
  /\ pc = "score"
  /\ pieces = 0
  /\ text = <<>>
  /\ dna = ZeroProfile
  /\ score \in ClampLo..ClampHi
  /\ resp = NoResp

Classify ==
  /\ pc = "score"
  /\ resp' = [risk_level |-> level_from_score(score)]
  /\ pc' = "classified"
  /\ UNCHANGED <<pieces, text, dna, score>>

NextLevel == Classify

SpecLevel == InitLevel /\ [][NextLevel]_vars

(***************************************************************************)
(* Properties                                                              *)
(***************************************************************************)
Range(s) == {s[i] : i \in 1..Len(s)}

\* the text the handler works on
Stripped == strip(text)

\* the number of distinct rules of dimension k that match the text t
RulesMatching(k, t) ==
  Cardinality({i \in 1..Len(PATTERNS[k]) : re_search(PATTERNS[k][i], t)})

\* the indices of the keywords that match the text t
KeywordsMatching(t) ==
  {i \in 1..Len(keywords) : re_search(KeywordPattern(keywords[i]), t)}

KwUrgent == keywords[11]
KwTransfer == keywords[14]
KwBank == keywords[20]

ScamCase == pc = "done" /\ text = ScamText

ScamDimensions == {"urgency", "authority", "payment_trap", "fear", "trust_hijack"}

\* C1 as stated: the scam scenario text scores >= 20 on urgency, authority,
\* payment_trap, fear and trust_hijack, is rated HIGH, highlights "urgent",
\* "bank" and "transfer", and carries the link and the no-transfer tips.
C1_ScamScenarioHigh ==
  ScamCase =>
    /\ \A k \in ScamDimensions : resp.dna[k] >= 20
    /\ resp.risk_level = "HIGH"
    /\ {KwUrgent, KwBank, KwTransfer} \subseteq Range(resp.highlights)
    /\ {TipLink, TipTransfer} \subseteq Range(resp.tips)

\* C1 amended: the same scenario, with risk_score 33 and risk_level SUSPICIOUS.
C1_ScamScenario ==
  ScamCase =>
    /\ \A k \in ScamDimensions : resp.dna[k] >= 20
    /\ resp.risk_score = 33
    /\ resp.risk_level = "SUSPICIOUS"
    /\ {KwUrgent, KwBank, KwTransfer} \subseteq Range(resp.highlights)
    /\ {TipLink, TipTransfer} \subseteq Range(resp.tips)

C1_Witness == ScamCase /\ resp.risk_level = "SUSPICIOUS" /\ Len(resp.tips) = 3

LevelRank(l) == CASE l = "SAFE" -> 0 [] l = "SUSPICIOUS" -> 1 [] l = "HIGH" -> 2

\* C2: on every score in [0,100] the level is SAFE iff score <= 30,
\* SUSPICIOUS iff 31 <= score <= 70, HIGH iff score >= 71, and no lower
\* score has a higher level.
C2_LevelThresholds ==
  pc = "classified" =>
    /\ resp.risk_level \in {"SAFE", "SUSPICIOUS", "HIGH"}
    /\ (resp.risk_level = "SAFE") <=> (score <= 30)
    /\ (resp.risk_level = "SUSPICIOUS") <=> (31 <= score /\ score <= 70)
    /\ (resp.risk_level = "HIGH") <=> (score >= 71)
    /\ \A s \in 0..score :
         LevelRank(level_from_score(s)) <= LevelRank(resp.risk_level)

C2_Witness == pc = "classified" /\ score = 31 /\ resp.risk_level = "SUSPICIOUS"

\* C3: every dimension score is min(20 * n, 100) for n the number of distinct
\* rules of the dimension that match the text; so it is a multiple of 20 in
\* [0,100], all six keys are present, and 5 or more rules give 100.
C3_DimensionScore ==
  pc = "done" =>
    /\ DOMAIN resp.dna = Dimensions
    /\ \A k \in Dimensions :
         LET n == RulesMatching(k, Stripped) IN
           /\ resp.dna[k] = (IF 20 * n < 100 THEN 20 * n ELSE 100)
           /\ resp.dna[k] \in {0, 20, 40, 60, 80, 100}
           /\ (n >= 5 => resp.dna[k] = 100)

C3_Witness ==
  /\ pc = "done"
  /\ RulesMatching("authority", Stripped) >= 6
  /\ resp.dna["authority"] = 100
  /\ resp.dna["urgency"] = 0

\* the weighted sum of the profile d, in hundredths
Hundredths(d) ==
  25 * d["payment_trap"] + 20 * d["trust_hijack"] + 20 * d["urgency"]
    + 15 * d["authority"] + 10 * d["fear"] + 10 * d["reward"]

\* C4: the risk score is an integer of [0,100] nearest to the weighted sum of
\* the profile; the weights sum to 1, the all-zero profile gives 0 and the
\* all-100 profile gives 100.
C4_WeightedRisk ==
  pc = "derived" =>
    /\ resp.risk_score \in 0..100
    /\ 100 * resp.risk_score - Hundredths(dna) \in -50..50
    /\ WeightedSum([k \in Dimensions |-> 1], Len(Weights)) = 100
    /\ ((\A k \in Dimensions : dna[k] = 0) => resp.risk_score = 0)
    /\ ((\A k \in Dimensions : dna[k] = 100) => resp.risk_score = 100)

C4_Witness ==
  /\ pc = "derived"
  /\ Hundredths(dna) % 100 = 50
  /\ resp.risk_score = 48

\* the conditions of the tip rules, in rule order, and their advice
TipConditions(d) ==
  << d["trust_hijack"] >= 40, d["payment_trap"] >= 40,
     d["urgency"] >= 40 \/ d["fear"] >= 40, d["authority"] >= 40,
     d["reward"] >= 40 >>

Advice == <<TipLink, TipTransfer, TipPause, TipVerify, TipReward>>

\* the number of rules among the first i whose condition holds
HeldUpTo(d, i) == Cardinality({j \in 1..i : TipConditions(d)[j]})

\* C5: between 1 and 3 tips: the advice of the rules whose condition holds, in
\* rule order, cut to the first 3; the fallback tip iff no condition holds.
C5_Tips ==
  pc = "derived" =>
    LET tips == resp.tips
        held == HeldUpTo(dna, 5)
    IN  /\ Len(tips) \in 1..3
        /\ (held > 0 => Len(tips) = (IF held < 3 THEN held ELSE 3))
        /\ \A i \in 1..5 :
             (TipConditions(dna)[i] /\ HeldUpTo(dna, i) <= 3)
               => tips[HeldUpTo(dna, i)] = Advice[i]
        /\ (tips = <<TipFallback>>) <=> (held = 0)
        /\ (TipFallback \in Range(tips)) <=> (held = 0)

C5_Witness ==
  /\ pc = "derived"
  /\ HeldUpTo(dna, 5) = 5
  /\ resp.tips = <<TipLink, TipTransfer, TipPause>>

\* the position of dimension k in the declaration order
KeyIndex(k) == CHOOSE i \in 1..Len(DNA_KEYS) : DNA_KEYS[i] = k

\* the dimensions that come before k: a higher score, or the same score and
\* declared earlier
Before(d, k) ==
  {j \in Dimensions :
     d[j] > d[k] \/ (d[j] = d[k] /\ KeyIndex(j) < KeyIndex(k))}

\* the dimension with exactly n dimensions before it
Ranked(d, n) == CHOOSE k \in Dimensions : Cardinality(Before(d, k)) = n

\* the dimensions an explanation has to name, in order
Named(d) == SelectSeq(<<Ranked(d, 0), Ranked(d, 1)>>, LAMBDA k : d[k] > 0)

\* C6: the explanation names exactly the dimensions that are among the top 2
\* by score (ties in declaration order) and score above 0, in that order; it
\* is the "No strong scam patterns" message iff every score is 0, and it is
\* never empty.
C6_Explanation ==
  pc = "derived" =>
    /\ resp.explanation # ""
    /\ (resp.explanation = NoPatterns) <=> (\A k \in Dimensions : dna[k] = 0)
    /\ (Named(dna) # <<>> => resp.explanation = Signs(Join(Named(dna))))

C6_Witness ==
  /\ pc = "derived"
  /\ dna["urgency"] = 0
  /\ dna["authority"] = 40 /\ dna["fear"] = 40 /\ dna["trust_hijack"] = 40
  /\ dna["payment_trap"] = 20 /\ dna["reward"] = 20
  /\ resp.explanation = Signs(mapping["authority"] \o ", " \o mapping["fear"])

\* the index in the keyword list of the i-th highlight
HighlightIndex(hl, i) == CHOOSE n \in 1..Len(keywords) : keywords[n] = hl[i]

\* C7: at most 8 highlights, no two equal ignoring case, in keyword-list
\* order: the first 8 keywords of the list that match; none when no keyword
\* matches.
C7_Highlights ==
  pc = "done" =>
    LET hl == resp.highlights
        m  == KeywordsMatching(Stripped)
    IN  /\ Len(hl) <= 8
        /\ \A i, j \in 1..Len(hl) : i # j => LowerStr(hl[i]) # LowerStr(hl[j])
        /\ \A i \in 1..Len(hl) :
             /\ hl[i] \in Range(keywords)
             /\ HighlightIndex(hl, i) \in m
             /\ Cardinality({n \in m : n < HighlightIndex(hl, i)}) = i - 1
        /\ Len(hl) = (IF Cardinality(m) < 8 THEN Cardinality(m) ELSE 8)
        /\ (m = {} => hl = <<>>)

C7_Witness ==
  /\ pc = "done"
  /\ Cardinality(KeywordsMatching(Stripped)) = 10
  /\ Len(resp.highlights) = 8
  /\ resp.highlights[1] = KwUrgent
  /\ text[1] = 112

\* no rule of the pattern bank and no keyword matches the text t
NothingMatches(t) ==
  /\ \A k \in Dimensions : RulesMatching(k, t) = 0
  /\ KeywordsMatching(t) = {}

\* C8: for the empty string, for "Hello, how are you today?" and for any
\* text no rule and no keyword matches, every score is 0, the risk is 0 and
\* SAFE, there is no highlight, and the explanation and the only tip are the
\* fallback ones.
C8_NoMatch ==
  (pc = "done" /\ (text = <<>> \/ text = HelloText \/ NothingMatches(Stripped))) =>
    /\ resp.dna = ZeroProfile
    /\ resp.risk_score = 0
    /\ resp.risk_level = "SAFE"
    /\ resp.highlights = <<>>
    /\ resp.explanation = NoPatterns
    /\ resp.tips = <<TipFallback>>

C8_Witness ==
  /\ pc = "done"
  /\ text = HelloText
  /\ resp.dna = ZeroProfile
  /\ resp.tips = <<TipFallback>>

\* the keyword k occurs in t as a plain substring, ignoring case
Occurs(k, t) == \E pos \in 1..(Len(t) + 1) : LitAt(k, t, pos)

\* the keyword k occurs in t between word boundaries, ignoring case
OccursDelimited(k, t) ==
  \E pos \in 1..(Len(t) + 1) :
     /\ LitAt(k, t, pos)
     /\ AtBoundary(t, pos)
     /\ AtBoundary(t, pos + Len(k))

ThaiKeywords == {keywords[i] : i \in 1..10}
LatinKeywords == {keywords[i] : i \in 11..20}

\* C9 as stated: a Latin keyword is highlighted only when it occurs between
\* word boundaries, a Thai keyword whenever it occurs as a plain substring
\* (short of the limit of 8 highlights).
C9_BoundaryPerScript ==
  pc = "done" =>
    /\ \A k \in LatinKeywords :
         k \in Range(resp.highlights) => OccursDelimited(k, Stripped)
    /\ Len(resp.highlights) < 8 =>
         \A k \in ThaiKeywords :
            Occurs(k, Stripped) => k \in Range(resp.highlights)

\* C10: on a profile of scores in {0,20,..,100}, the fallback tip comes only
\* with a risk of at most 20 and the level SAFE; a SUSPICIOUS or HIGH result
\* has a specific tip and a specific explanation.
C10_FallbackOnlyWhenSafe ==
  (pc = "derived" /\ \A k \in Dimensions : dna[k] % 20 = 0) =>
    /\ (TipFallback \in Range(resp.tips)) =>
          (resp.risk_score <= 20 /\ resp.risk_level = "SAFE")
    /\ (resp.risk_level \in {"SUSPICIOUS", "HIGH"}) =>
          (TipFallback \notin Range(resp.tips) /\ resp.explanation # NoPatterns)

C10_Witness ==
  /\ pc = "derived"
  /\ \A k \in Dimensions : dna[k] = 20
  /\ resp.tips = <<TipFallback>>
  /\ resp.risk_score = 20

====
